---- MODULE Spec2Model ----
(***************************************************************************)
(* Model of talents/download_actors.py: the per-actor fetch-with-retry     *)
(* workflow (process_actor / download_image) and the batch driver (main).  *)
(*                                                                         *)
(* Strings are sequences of one-character strings.  The output directory   *)
(* is the set `files` of the file names it holds.  The image source and    *)
(* the PNG encoder are the environment: each download and each save ends   *)
(* in one of its possible outcomes, chosen nondeterministically.  A save   *)
(* that raises leaves no file at output_path.                              *)
(***************************************************************************)
EXTENDS Integers, Sequences, FiniteSets, TLC

\* ------------------------------------------------------------------ bounds
MaxActors == 3        \* longest input list explored
MaxRuns == 2          \* number of consecutive runs of main() on one directory
MaxNameLen == 3       \* longest name clean_name_for_file is given on its own
MaxCleanCalls == 2    \* times clean_name_for_file is applied to its own result

\* --------------------------------------------------------- program constants
max_attempts == 3     \* range(1, 4) / attempt < 3 / max_attempts=3

\* ----------------------------------------------------------------- strings
Range(s) == {s[k] : k \in 1..Len(s)}

UpperCase == <<"A","B","C","D","E","F","G","H","I","J","K","L","M",
               "N","O","P","Q","R","S","T","U","V","W","X","Y","Z">>
LowerCase == <<"a","b","c","d","e","f","g","h","i","j","k","l","m",
               "n","o","p","q","r","s","t","u","v","w","x","y","z">>

\* faulty variant of lower: str.swapcase()
lower_swapcase(c) ==
    IF \E k \in 1..Len(UpperCase) : UpperCase[k] = c
    THEN LowerCase[CHOOSE k \in 1..Len(UpperCase) : UpperCase[k] = c]
    ELSE IF \E k \in 1..Len(LowerCase) : LowerCase[k] = c
    THEN UpperCase[CHOOSE k \in 1..Len(LowerCase) : LowerCase[k] = c]
    ELSE c

\* str.lower() on one character
lower(c) ==
    IF \E k \in 1..Len(UpperCase) : UpperCase[k] = c
    THEN LowerCase[CHOOSE k \in 1..Len(UpperCase) : UpperCase[k] = c]
    ELSE c

\* str.replace(' ', '-') on one character
replace_space(c) == IF c = " " THEN "-" ELSE c

\* clean_name_for_file(name): name.lower().replace(' ', '-')
clean_name_for_file(name) ==
    [k \in 1..Len(name) |-> replace_space(lower(name[k]))]

\* f"{clean_name}.png": the file name inside output_dir
png_name(clean_name) == clean_name \o <<".png">>

\* the file process_actor and main look for: output_dir/<clean_name>.png
output_path(actor_name) == png_name(clean_name_for_file(actor_name))

CdnBase == <<"https://cdn.jsdelivr.net/gh/talentZ-A/talent-z-assets/talents/actors_images/">>

\* create_cdn_link(actor_name)
create_cdn_link(actor_name) ==
    CdnBase \o clean_name_for_file(actor_name) \o <<".png">>

\* os.path.exists(path) against the directory content
path_exists(path, dir) == path \in dir

\* ------------------------------------------------------------------ inputs
\* Display names the input list is drawn from.  The first two share a slug.
ActorNames == { <<"A"," ","B">>, <<"a","-","b">>, <<"C">> }

ActorLists == UNION { [1..n -> ActorNames] : n \in 0..MaxActors }

AllFiles == { output_path(a) : a \in ActorNames }

\* ------------------------------------------------------------------- state
VARIABLES
    pc,                 \* position of the single thread of control
    run,                \* which run of main() this is
    actors,             \* main: the input list
    files,              \* content of output_dir
    successful_actors,  \* main: successful_actors
    remaining_actors,   \* main: remaining_actors
    remaining_pos,      \* for each remaining actor, its position in actors
    i,                  \* main: index of the loop in progress
    links,              \* lines of actor_image_links.txt
    actor_name,         \* process_actor: actor_name
    attempt,            \* process_actor: attempt
    ret,                \* process_actor: returned value ("none" while running)
    \* ---- observation of the current process_actor call
    present_at_call,    \* output file existed when the call started
    files_at_call,      \* directory content when the call started
    fetches,            \* download_image calls made by the call
    sleeps,             \* time.sleep(0.5) calls made by the call
    saves,              \* img.save calls made by the call
    written,            \* img.save calls of the call that completed
    hist,               \* per attempt: "fetch_fail", "save_fail" or "saved"
    \* ---- observation of the current run of main
    files_at_start,     \* directory content when main started
    result,             \* per input position: "none", "hit", "ok", "fail"
    fetch_log,          \* <<position, attempt>> of every download_image call
    save_count,         \* per file: completed img.save calls, over all runs
    \* ---- clean_name_for_file called on its own
    clean_arg,          \* clean_name_for_file: name
    clean_ret,          \* clean_name_for_file: value returned by the last call
    clean_calls         \* number of calls made so far

vars == << pc, run, actors, files, successful_actors, remaining_actors,
           remaining_pos, i, links, actor_name, attempt, ret,
           present_at_call, files_at_call, fetches, sleeps, saves, written,
           hist, files_at_start, result, fetch_log, save_count,
           clean_arg, clean_ret, clean_calls >>

clean_vars == << clean_arg, clean_ret, clean_calls >>

call_vars == << actor_name, attempt, ret, present_at_call, files_at_call,
                fetches, sleeps, saves, written, hist >>

main_vars == << successful_actors, remaining_actors, remaining_pos, i, links >>

\* State of a process that has just entered main() (lines 125-142).
StartMain(acts, dir) ==
    /\ pc = "prescan"
    /\ actors = acts
    /\ files = dir
    /\ files_at_start = dir
    /\ successful_actors = <<>>
    /\ remaining_actors = <<>>
    /\ remaining_pos = <<>>
    /\ i = 1
    /\ links = <<>>
    /\ actor_name = <<>>
    /\ attempt = 0
    /\ ret = "none"
    /\ present_at_call = FALSE
    /\ files_at_call = {}
    /\ fetches = 0
    /\ sleeps = 0
    /\ saves = 0
    /\ written = 0
    /\ hist = <<>>
    /\ result = [k \in 1..Len(acts) |-> "none"]
    /\ fetch_log = <<>>

Init ==
    /\ clean_arg = <<>>
    /\ clean_ret = <<>>
    /\ clean_calls = 0
    /\ run = 1
    /\ save_count = [f \in AllFiles |-> 0]
    /\ \E acts \in ActorLists, dir \in SUBSET AllFiles : StartMain(acts, dir)

\* ------------------------------------------------- decisions of the code
\* faulty variant of already_saved: the existence check is missing
already_saved_unchecked(name, dir) == FALSE

\* faulty variant of already_saved: the raw name is used, not the clean one
already_saved_raw_name(name, dir) == path_exists(png_name(name), dir)

\* process_actor, lines 93-97: the early return "already exists, skipping"
already_saved(name, dir) == path_exists(output_path(name), dir)

\* main, lines 146-147: the pre-scan's test for an existing image
has_image(actor, dir) == path_exists(output_path(actor), dir)

RECURSIVE positions_from(_, _, _)
positions_from(acts, succ, k) ==
    IF k > Len(acts) THEN <<>>
    ELSE (IF acts[k] \notin Range(succ) THEN <<k>> ELSE <<>>)
         \o positions_from(acts, succ, k + 1)

\* faulty variant of remaining_positions: the remaining actors in reverse order
remaining_positions_reversed(acts, succ) ==
    LET pos == positions_from(acts, succ, 1)
    IN  [k \in 1..Len(pos) |-> pos[Len(pos) + 1 - k]]

\* main, line 152: [actor for actor in actors if actor not in successful_actors]
\* as the positions of actors that the comprehension keeps, in its order
remaining_positions(acts, succ) == positions_from(acts, succ, 1)

\* process_actor, line 105: "if img:" after download_image returned
after_fetch(got_image) == IF got_image THEN "pa_save" ELSE "pa_delay"

\* faulty variant of after_save: the except clause returns True
after_save_true_on_error(saved) == [pc |-> "pa_ret", ret |-> "True"]

\* faulty variant of after_save: a failed save ends the call with False
after_save_give_up(saved) ==
    IF saved THEN [pc |-> "pa_ret", ret |-> "True"]
    ELSE [pc |-> "pa_ret", ret |-> "False"]

\* faulty variant of after_save: the "return True" of line 113 is missing
after_save_no_return(saved) == [pc |-> "pa_delay", ret |-> "none"]

\* process_actor, lines 106-115: "return True" after img.save, or the except
\* clause, which prints and falls through to the delay
after_save(saved) ==
    IF saved THEN [pc |-> "pa_ret", ret |-> "True"]
    ELSE [pc |-> "pa_delay", ret |-> "none"]

\* faulty variant of delay_needed: "if attempt < 2"
delay_first_only(att) == att < 2

\* faulty variant of delay_needed: the sleep also follows the last attempt
delay_always(att) == att <= 3

\* process_actor, line 118: "if attempt < 3" guarding time.sleep(0.5)
delay_needed(att) == att < 3

\* faulty variant of another_attempt: range(1, 5)
another_attempt_off_by_one(att) == att + 1 < 5

\* process_actor, line 102: "for attempt in range(1, 4)" has another iteration
another_attempt(att) == att + 1 < 4

\* main, line 156: "for actor in remaining_actors" with k the next index and n
\* the length of the list; after the loop comes the writing of the links
for_remaining(k, n) == IF k <= n THEN "loop" ELSE "write"

\* faulty variant of after_actor: a failed actor ends the loop ("break")
after_actor_break(success, k, n) ==
    IF success THEN for_remaining(k + 1, n) ELSE "write"

\* main, lines 156-164: after process_actor returned for the k-th of n actors,
\* the loop goes on to the next actor whatever success is
after_actor(success, k, n) == for_remaining(k + 1, n)

\* faulty variant of record_outcome: the actor is appended whatever success is
record_outcome_always(succ, actor, success) == Append(succ, actor)

\* main, lines 160-161: "if success: successful_actors.append(actor)"
record_outcome(succ, actor, success) ==
    IF success THEN Append(succ, actor) ELSE succ

\* faulty variant of link_lines: the test of line 172 is inverted
link_lines_inverted(acts, succ) ==
    LET kept == SelectSeq(acts, LAMBDA a : a \notin Range(succ))
    IN  [k \in 1..Len(kept) |-> create_cdn_link(kept[k])]

\* faulty variant of link_lines: the links follow successful_actors
link_lines_recorded_order(acts, succ) ==
    [k \in 1..Len(succ) |-> create_cdn_link(succ[k])]

\* main, lines 168-173: one link per actor of the list that is in
\* successful_actors, in the order of the list
link_lines(acts, succ) ==
    LET kept == SelectSeq(acts, LAMBDA a : a \in Range(succ))
    IN  [k \in 1..Len(kept) |-> create_cdn_link(kept[k])]

\* main, line 176: the count printed as "Successfully processed N"
reported_count(succ) == Len(succ)

\* ----------------------------------------------------------------- actions
\* main, lines 145-149: one iteration of the pre-scan
main_prescan ==
    /\ UNCHANGED clean_vars
    /\ pc = "prescan"
    /\ i <= Len(actors)
    /\ IF has_image(actors[i], files)
       THEN /\ successful_actors' = Append(successful_actors, actors[i])
            /\ result' = [result EXCEPT ![i] = "hit"]
       ELSE UNCHANGED << successful_actors, result >>
    /\ i' = i + 1
    /\ UNCHANGED << pc, run, actors, files, remaining_actors, remaining_pos,
                    links, call_vars, files_at_start, fetch_log, save_count >>

\* main, lines 152-153: the pre-scan is over, remaining_actors is computed
main_filter ==
    /\ UNCHANGED clean_vars
    /\ pc = "prescan"
    /\ i > Len(actors)
    /\ LET pos == remaining_positions(actors, successful_actors)
       IN  /\ remaining_pos' = pos
           /\ remaining_actors' = [k \in 1..Len(pos) |-> actors[pos[k]]]
    /\ i' = 1
    /\ pc' = for_remaining(1, Len(remaining_actors'))
    /\ UNCHANGED << run, actors, files, successful_actors, links, call_vars,
                    files_at_start, result, fetch_log, save_count >>

\* main, lines 156-158: the next remaining actor, process_actor is called
main_next_actor ==
    /\ UNCHANGED clean_vars
    /\ pc = "loop"
    /\ actor_name' = remaining_actors[i]
    /\ attempt' = 0
    /\ ret' = "none"
    /\ present_at_call' = (output_path(remaining_actors[i]) \in files)
    /\ files_at_call' = files
    /\ fetches' = 0
    /\ sleeps' = 0
    /\ saves' = 0
    /\ written' = 0
    /\ hist' = <<>>
    /\ pc' = "pa_check"
    /\ UNCHANGED << run, actors, files, main_vars, files_at_start, result,
                    fetch_log, save_count >>

\* process_actor, lines 93-102: existence check, else the loop starts
process_actor ==
    /\ UNCHANGED clean_vars
    /\ pc = "pa_check"
    /\ IF already_saved(actor_name, files)
       THEN /\ ret' = "True"
            /\ pc' = "pa_ret"
            /\ UNCHANGED attempt
       ELSE /\ attempt' = 1
            /\ pc' = "pa_fetch"
            /\ UNCHANGED ret
    /\ UNCHANGED << run, actors, files, main_vars, actor_name,
                    present_at_call, files_at_call, fetches, sleeps, saves,
                    written, hist, files_at_start, result, fetch_log,
                    save_count >>

\* process_actor line 103 and download_image, lines 17-86: one request; it
\* returns an image, or None after any exception
download_image ==
    /\ UNCHANGED clean_vars
    /\ pc = "pa_fetch"
    /\ \E got_image \in BOOLEAN :
         /\ pc' = after_fetch(got_image)
         /\ hist' = IF got_image THEN hist ELSE Append(hist, "fetch_fail")
    /\ fetches' = fetches + 1
    /\ fetch_log' = Append(fetch_log, << remaining_pos[i], attempt >>)
    /\ UNCHANGED << run, actors, files, main_vars, actor_name, attempt, ret,
                    present_at_call, files_at_call, sleeps, saves, written,
                    files_at_start, result, save_count >>

\* process_actor, lines 106-115: os.makedirs and img.save, inside try/except
process_actor_save ==
    /\ UNCHANGED clean_vars
    /\ pc = "pa_save"
    /\ saves' = saves + 1
    /\ \E saved \in BOOLEAN :
         /\ pc' = after_save(saved).pc
         /\ ret' = after_save(saved).ret
         /\ IF saved
            THEN /\ files' = files \cup {output_path(actor_name)}
                 /\ written' = written + 1
                 /\ save_count' = [save_count EXCEPT
                                     ![output_path(actor_name)] = @ + 1]
                 /\ hist' = Append(hist, "saved")
            ELSE /\ hist' = Append(hist, "save_fail")
                 /\ UNCHANGED << files, written, save_count >>
    /\ UNCHANGED << run, actors, main_vars, actor_name, attempt,
                    present_at_call, files_at_call, fetches, sleeps,
                    files_at_start, result, fetch_log >>

\* process_actor, lines 117-122: the delay, then the next iteration of the
\* for loop or, after the last one, "return False"
process_actor_delay ==
    /\ UNCHANGED clean_vars
    /\ pc = "pa_delay"
    /\ sleeps' = IF delay_needed(attempt) THEN sleeps + 1 ELSE sleeps
    /\ IF another_attempt(attempt)
       THEN /\ attempt' = attempt + 1
            /\ pc' = "pa_fetch"
            /\ UNCHANGED ret
       ELSE /\ ret' = "False"
            /\ pc' = "pa_ret"
            /\ UNCHANGED attempt
    /\ UNCHANGED << run, actors, files, main_vars, actor_name,
                    present_at_call, files_at_call, fetches, saves, written,
                    hist, files_at_start, result, fetch_log, save_count >>

\* main, lines 158-164: process_actor returned; record, sleep 0.2, go on
main_record ==
    /\ UNCHANGED clean_vars
    /\ pc = "pa_ret"
    /\ successful_actors' =
           record_outcome(successful_actors, remaining_actors[i], ret = "True")
    /\ result' = [result EXCEPT ![remaining_pos[i]] =
                      IF ret = "True" THEN "ok" ELSE "fail"]
    /\ i' = i + 1
    /\ pc' = after_actor(ret = "True", i, Len(remaining_actors))
    /\ UNCHANGED << run, actors, files, remaining_actors, remaining_pos,
                    links, call_vars, files_at_start, fetch_log, save_count >>

\* main, lines 167-176: actor_image_links.txt is written, the run is over
main_write_links ==
    /\ UNCHANGED clean_vars
    /\ pc = "write"
    /\ links' = link_lines(actors, successful_actors)
    /\ pc' = "done"
    /\ UNCHANGED << run, actors, files, successful_actors, remaining_actors,
                    remaining_pos, i, call_vars, files_at_start, result,
                    fetch_log, save_count >>

\* the script is started again on the same directory
main_again ==
    /\ UNCHANGED clean_vars
    /\ pc = "done"
    /\ run < MaxRuns
    /\ run' = run + 1
    /\ pc' = "prescan"
    /\ files_at_start' = files
    /\ successful_actors' = <<>>
    /\ remaining_actors' = <<>>
    /\ remaining_pos' = <<>>
    /\ i' = 1
    /\ links' = <<>>
    /\ actor_name' = <<>>
    /\ attempt' = 0
    /\ ret' = "none"
    /\ present_at_call' = FALSE
    /\ files_at_call' = {}
    /\ fetches' = 0
    /\ sleeps' = 0
    /\ saves' = 0
    /\ written' = 0
    /\ hist' = <<>>
    /\ result' = [k \in 1..Len(actors) |-> "none"]
    /\ fetch_log' = <<>>
    /\ UNCHANGED << actors, files, save_count >>

Next ==
    \/ main_prescan
    \/ main_filter
    \/ main_next_actor
    \/ process_actor
    \/ download_image
    \/ process_actor_save
    \/ process_actor_delay
    \/ main_record
    \/ main_write_links
    \/ main_again

Spec == Init /\ [][Next]_vars

\* The thread of control always takes its next step: requests time out,
\* sleeps return.
LiveSpec == Spec /\ WF_vars(Next)

\* ===================================================== process_actor claims
\* hist says that the first download of the call that returned an image was
\* the one of attempt k
FirstImageAt(k) ==
    /\ k \in DOMAIN hist
    /\ hist[k] # "fetch_fail"
    /\ \A j \in 1..(k - 1) : hist[j] = "fetch_fail"

\* C1: when <clean_name>.png is in the directory at the time process_actor is
\* called, the call makes no download, no sleep and no save, leaves the
\* directory as it is and returns True.
C1_SkipExisting ==
    present_at_call =>
        /\ fetches = 0
        /\ sleeps = 0
        /\ saves = 0
        /\ written = 0
        /\ files = files_at_call
        /\ pc # "pa_check" => ret = "True"

\* C1 witness: process_actor has returned for an actor whose file was there
C1_Witness == pc = "pa_ret" /\ present_at_call /\ ret = "True"

\* C2: when the file is absent and every download of the call fails, the
\* call makes exactly max_attempts downloads and max_attempts - 1 sleeps,
\* returns False and creates no file.
C2_AllDownloadsFail ==
    ( /\ pc = "pa_ret"
      /\ ~present_at_call
      /\ \A k \in DOMAIN hist : hist[k] = "fetch_fail" )
    =>
        /\ fetches = max_attempts
        /\ sleeps = max_attempts - 1
        /\ ret = "False"
        /\ saves = 0
        /\ files = files_at_call
        /\ output_path(actor_name) \notin files

\* C2 witness: a call has returned after three failed downloads
C2_Witness ==
    /\ pc = "pa_ret"
    /\ ~present_at_call
    /\ hist = << "fetch_fail", "fetch_fail", "fetch_fail" >>

\* C3 as stated: when the file is absent and the downloads fail on attempts
\* 1..k-1 and succeed on attempt k, the call makes exactly k downloads,
\* returns True and writes exactly one file.
C3_AsStated ==
    \A k \in 1..max_attempts :
        (pc = "pa_ret" /\ ~present_at_call /\ FirstImageAt(k))
        => (fetches = k /\ ret = "True" /\ written = 1)

\* C3 amended: when the file is absent, the downloads fail on attempts 1..k-1
\* and succeed on attempt k, and the save of that image succeeds, the call
\* makes exactly k downloads and k - 1 sleeps, returns True, and exactly one
\* file, <clean_name>.png, is written by exactly one save.
C3_FirstImageSaved ==
    \A k \in 1..max_attempts :
        (pc = "pa_ret" /\ ~present_at_call /\ FirstImageAt(k) /\ hist[k] = "saved")
        =>
            /\ fetches = k
            /\ sleeps = k - 1
            /\ ret = "True"
            /\ saves = 1
            /\ written = 1
            /\ files = files_at_call \cup {output_path(actor_name)}

\* C3 witness: two failed downloads, then an image that is saved
C3_Witness ==
    /\ pc = "pa_ret"
    /\ ~present_at_call
    /\ hist = << "fetch_fail", "fetch_fail", "saved" >>
    /\ ret = "True"

FetchesAt(j) == Cardinality({k \in DOMAIN fetch_log : fetch_log[k][1] = j})

\* the Outcome Set: a name is a success when the pre-scan found its image or
\* a process_actor call for it returned True
OutcomeSuccess(name) ==
    \E j \in DOMAIN actors : actors[j] = name /\ result[j] \in {"hit", "ok"}

\* positions of the list whose name is a success
SuccessPositions == {j \in DOMAIN actors : OutcomeSuccess(actors[j])}

\* C5: after a run, actor_image_links.txt holds exactly one line for every
\* entry of the input list whose name is a success and none for the others,
\* and the lines follow the order of the input list.
C5_LinkArtifact ==
    pc = "done" =>
        /\ Len(links) = Cardinality(SuccessPositions)
        /\ \E f \in [1..Len(links) -> SuccessPositions] :
             /\ \A a, b \in 1..Len(links) : a < b => f[a] < f[b]
             /\ \A k \in 1..Len(links) :
                  links[k] = CdnBase \o output_path(actors[f[k]])

\* C5 witness: a finished run with a failed actor, whose successes were
\* recorded in another order than the one of the list
C5_Witness ==
    /\ pc = "done"
    /\ Len(actors) = 3
    /\ Cardinality(Range(actors)) = 3
    /\ result = << "fail", "ok", "hit" >>
    /\ successful_actors = << actors[3], actors[2] >>
    /\ links = << create_cdn_link(actors[2]), create_cdn_link(actors[3]) >>

\* C6: no failure ends the batch.  Whatever the downloads and saves do, every
\* run of main reaches its end (each step lowers a bounded count of the steps
\* left and no state before the end is without a next step); at the end every
\* entry of the list has an outcome, an entry that failed had all
\* its max_attempts downloads, and in a list of two different names whose
\* first actor failed and whose second succeeded the second one's file is the one file
\* created and its link the one line written.
C6_AllOutcomes ==
    pc = "done" =>
        /\ \A j \in DOMAIN actors :
             /\ result[j] \in {"hit", "ok", "fail"}
             /\ result[j] = "fail" => FetchesAt(j) = max_attempts
             /\ result[j] = "hit" => FetchesAt(j) = 0
        /\ (Len(actors) = 2 /\ actors[1] # actors[2]
                /\ result = << "fail", "ok" >>) =>
             /\ files = files_at_start \cup {output_path(actors[2])}
             /\ output_path(actors[2]) \notin files_at_start
             /\ links = << CdnBase \o output_path(actors[2]) >>

\* Steps a process_actor call may still take, at most
CallRank ==
    CASE pc = "pa_check" -> 4 * max_attempts + 5
      [] pc = "pa_fetch" -> 4 * (max_attempts - attempt) + 4
      [] pc = "pa_save"  -> 4 * (max_attempts - attempt) + 3
      [] pc = "pa_delay" -> 4 * (max_attempts - attempt) + 2
      [] pc = "pa_ret"   -> 1
      [] OTHER -> 0

\* Steps one process_actor call and its recording take, at most
CallCost == 4 * max_attempts + 7

\* Steps the current run of main may still take, at most
RunRank ==
    CASE pc = "prescan" ->
             CallCost * Len(actors) + 3 + (Len(actors) + 1 - i)
      [] pc = "loop" -> CallCost * (Len(remaining_actors) - i + 1) + 1
      [] pc \in {"pa_check", "pa_fetch", "pa_save", "pa_delay", "pa_ret"} ->
             CallCost * (Len(remaining_actors) - i) + 1 + CallRank
      [] pc = "write" -> 1
      [] OTHER -> 0

\* Steps all runs may still take, at most
Rank == (MaxRuns - run) * (CallCost * (MaxActors + 1) + 5) + RunRank

\* Every step of the program brings the end of the batch nearer, and the
\* program never stops before the end of a run
C6_Progress ==
    /\ [][Rank' < Rank /\ Rank' >= 0]_vars
    /\ [](pc = "done" \/ ENABLED Next)

\* Every run of main reaches its end
C6_Terminates == \A r \in 1..MaxRuns : (run = r) ~> (run = r /\ pc = "done")

C6_BatchCompletes == C6_Progress /\ []C6_AllOutcomes

\* C6 witness: a finished run in which an actor failed on all attempts and an
\* actor listed after it, with another file name, was downloaded
C6_Witness ==
    /\ pc = "done"
    /\ \E j, k \in DOMAIN actors :
         /\ j < k
         /\ result[j] = "fail"
         /\ result[k] = "ok"
         /\ output_path(actors[j]) # output_path(actors[k])
         /\ FetchesAt(k) > 0

\* C7: output_dir only grows.  Over all calls and runs, with duplicate names
\* and names sharing a file name, no step removes a file, a download is made
\* and a save completes only for a file that is not there, and no file is
\* saved more than once.
C7_StepOk ==
    /\ files \subseteq files'
    /\ fetches' = fetches + 1 => output_path(actor_name) \notin files
    /\ written' = written + 1 =>
           /\ output_path(actor_name) \notin files
           /\ files' = files \cup {output_path(actor_name)}
           /\ save_count[output_path(actor_name)] = 0
    /\ written' = written \/ written' = 0 => files' = files
    /\ \A f \in AllFiles : save_count'[f] <= 1

C7_AppendOnly == [][C7_StepOk]_vars

\* C7 witness: the end of a second run over a list in which two different
\* names share a file name, that file having been saved by the program
C7_Witness ==
    /\ pc = "done"
    /\ run = 2
    /\ \E j, k \in DOMAIN actors :
         /\ j < k
         /\ actors[j] # actors[k]
         /\ output_path(actors[j]) = output_path(actors[k])
         /\ save_count[output_path(actors[j])] = 1
         /\ result[j] = "hit"
         /\ result[k] = "hit"

\* every entry of the list had its image when the run started
Populated == \A j \in DOMAIN actors : output_path(actors[j]) \in files_at_start

\* C8: a run started on a directory that holds the image of every actor of
\* the list makes no download, whatever the source would answer, and writes
\* one link per entry of the list, in the order of the list.
C8_PopulatedStore ==
    Populated =>
        /\ fetch_log = <<>>
        /\ fetches = 0
        /\ saves = 0
        /\ files = files_at_start
        /\ pc = "done" =>
               links = [j \in DOMAIN actors |-> CdnBase \o output_path(actors[j])]

\* C8 witness: the end of a second run, on a list of several actors, all of
\* whose images are there, one of them saved by the first run
C8_Witness ==
    /\ pc = "done"
    /\ run = 2
    /\ Populated
    /\ Len(actors) >= 2
    /\ Len(links) = Len(actors)
    /\ \E j \in DOMAIN actors : save_count[output_path(actors[j])] = 1

\* -------------------------------------------- the single pass of the batch
\* The batch driver as one pass in list order: an actor whose image exists is
\* a success without a download, any other actor is acquired.  ok_at[j] is the
\* attempt at which the acquisition of entry j succeeds, 0 when it never does.
RECURSIVE single_pass(_, _, _)
single_pass(j, ok_at, st) ==
    IF j > Len(actors) THEN st
    ELSE IF output_path(actors[j]) \in st.files
    THEN single_pass(j + 1, ok_at,
             [st EXCEPT !.succ = Append(@, actors[j]),
                        !.outcome = Append(@, TRUE)])
    ELSE LET n == IF ok_at[j] = 0 THEN max_attempts ELSE ok_at[j]
             calls == [a \in 1..n |-> << j, a >>]
         IN  IF ok_at[j] = 0
             THEN single_pass(j + 1, ok_at,
                      [st EXCEPT !.log = @ \o calls,
                                 !.outcome = Append(@, FALSE)])
             ELSE single_pass(j + 1, ok_at,
                      [st EXCEPT !.log = @ \o calls,
                                 !.files = @ \cup {output_path(actors[j])},
                                 !.succ = Append(@, actors[j]),
                                 !.outcome = Append(@, TRUE)])

\* what the source and the saves did for each entry in the run observed
ObservedOkAt ==
    [j \in DOMAIN actors |-> IF result[j] = "ok" THEN FetchesAt(j) ELSE 0]

\* the single pass on this run's list, directory and answers
SinglePassRun ==
    single_pass(1, ObservedOkAt,
                [files |-> files_at_start, succ |-> <<>>, log |-> <<>>,
                 outcome |-> <<>>])

\* C9: the actors are handled in the order of the list.  An actor whose image
\* exists is a success without a download; the downloads of one actor are
\* attempts 1, 2, ... in a row and come before every download of an actor
\* listed later; and the run ends with the same downloads in the same order,
\* the same outcome per entry, the same set of successful names and the same
\* directory as the single pass in list order.
C9_InOrder ==
    /\ \A k \in DOMAIN fetch_log :
         IF k = 1 THEN fetch_log[k][2] = 1
         ELSE \/ /\ fetch_log[k][1] = fetch_log[k - 1][1]
                 /\ fetch_log[k][2] = fetch_log[k - 1][2] + 1
              \/ /\ fetch_log[k][1] > fetch_log[k - 1][1]
                 /\ fetch_log[k][2] = 1
    /\ \A j \in DOMAIN actors :
         output_path(actors[j]) \in files_at_start => FetchesAt(j) = 0
    /\ pc = "done" =>
         /\ \A j \in DOMAIN actors :
              /\ result[j] # "none"
              /\ output_path(actors[j]) \in files_at_start => result[j] = "hit"
         /\ SinglePassRun.log = fetch_log
         /\ SinglePassRun.outcome =
                [j \in DOMAIN actors |-> result[j] \in {"hit", "ok"}]
         /\ Range(SinglePassRun.succ) = Range(successful_actors)
         /\ SinglePassRun.files = files

\* C9 witness: the end of a run whose second actor had its image from the
\* start while the first and the third were downloaded, the first one failing
C9_Witness ==
    /\ pc = "done"
    /\ Len(actors) = 3
    /\ result = << "fail", "hit", "ok" >>
    /\ FetchesAt(1) = 3
    /\ FetchesAt(3) >= 2
    /\ successful_actors = << actors[2], actors[3] >>

\* C10: a failed save uses up its attempt as a failed download does.  Each
\* attempt makes one download; after a failed save of attempt n < max_attempts
\* the call sleeps and downloads again as attempt n + 1; a call in which no
\* save completed returns False after max_attempts attempts; and the call
\* always returns True or False.
C10_PersistFailure ==
    /\ Len(hist) <= max_attempts
    /\ pc \in {"pa_fetch", "pa_save"} => attempt = Len(hist) + 1
    /\ pc = "pa_delay" => attempt = Len(hist) /\ hist[attempt] # "saved"
    /\ pc \in {"pa_fetch", "pa_delay", "pa_ret"} => fetches = Len(hist)
    /\ pc = "pa_save" => fetches = Len(hist) + 1
    /\ pc = "pa_ret" =>
         /\ ret \in {"True", "False"}
         /\ \A n \in DOMAIN hist :
              (hist[n] = "save_fail" /\ n < max_attempts) => Len(hist) > n
         /\ sleeps = Cardinality({n \in DOMAIN hist :
                                    hist[n] # "saved" /\ n < max_attempts})
         /\ (~present_at_call /\ \A n \in DOMAIN hist : hist[n] # "saved") =>
              /\ ret = "False"
              /\ Len(hist) = max_attempts
              /\ files = files_at_call

\* C10 witness: a call returned False after a failed save on attempts 1 and
\* 3 and a failed download on attempt 2
C10_Witness ==
    /\ pc = "pa_ret"
    /\ hist = << "save_fail", "fetch_fail", "save_fail" >>
    /\ fetches = 3
    /\ saves = 2
    /\ ret = "False"

\* C11: in one process_actor call the downloads carry the attempt numbers
\* 1, 2, ... without gap or repeat, exactly one sleep of the fixed delay lies
\* between two downloads that follow each other, and no sleep follows the
\* last attempt or a save that completed.
C11_StepOk ==
    /\ fetches' = fetches + 1 =>
           /\ attempt = fetches + 1
           /\ sleeps = fetches
           /\ fetch_log' = Append(fetch_log, << remaining_pos[i], fetches + 1 >>)
    /\ sleeps' = sleeps + 1 =>
           /\ sleeps = fetches - 1
           /\ attempt < max_attempts
           /\ hist[Len(hist)] # "saved"
           /\ pc' = "pa_fetch"
    /\ (pc = "pa_delay" /\ pc' = "pa_fetch") => sleeps' = sleeps + 1
    /\ ret' # ret => sleeps' = sleeps \/ sleeps' = 0

C11_AttemptsAndDelays ==
    /\ [][C11_StepOk]_vars
    /\ [](pc = "pa_ret" /\ ~present_at_call => sleeps = fetches - 1)

\* C11 witness: a call that made three downloads, the last of them saved,
\* with two sleeps
C11_Witness ==
    /\ pc = "pa_ret"
    /\ fetches = 3
    /\ sleeps = 2
    /\ hist = << "save_fail", "fetch_fail", "saved" >>
    /\ ret = "True"

\* ======================================== clean_name_for_file on its own
\* Characters the names given to clean_name_for_file are made of: an upper
\* case letter, a lower case letter, the space, the hyphen and the full stop
CleanChars == { "A", "b", " ", "-", "." }

RobertDowneyJr ==
    << "R","o","b","e","r","t"," ","D","o","w","n","e","y"," ","J","r","." >>

CleanInputs ==
    UNION { [1..n -> CleanChars] : n \in 0..MaxNameLen } \cup { RobertDowneyJr }

\* A caller that only uses clean_name_for_file: nothing of main is running
CleanInit ==
    /\ clean_arg \in CleanInputs
    /\ clean_ret = <<>>
    /\ clean_calls = 0
    /\ pc = "clean"
    /\ run = 1
    /\ actors = <<>>
    /\ files = {}
    /\ files_at_start = {}
    /\ successful_actors = <<>>
    /\ remaining_actors = <<>>
    /\ remaining_pos = <<>>
    /\ i = 1
    /\ links = <<>>
    /\ actor_name = <<>>
    /\ attempt = 0
    /\ ret = "none"
    /\ present_at_call = FALSE
    /\ files_at_call = {}
    /\ fetches = 0
    /\ sleeps = 0
    /\ saves = 0
    /\ written = 0
    /\ hist = <<>>
    /\ result = <<>>
    /\ fetch_log = <<>>
    /\ save_count = [f \in AllFiles |-> 0]

clean_idle ==
    UNCHANGED << pc, run, actors, files, main_vars, call_vars, files_at_start,
                 result, fetch_log, save_count >>

\* clean_name_for_file(name), lines 8-10, called with the given name
clean_name_call ==
    /\ pc = "clean"
    /\ clean_calls = 0
    /\ clean_ret' = clean_name_for_file(clean_arg)
    /\ clean_calls' = 1
    /\ UNCHANGED clean_arg
    /\ clean_idle

\* clean_name_for_file called with the value its last call returned
clean_name_recall ==
    /\ pc = "clean"
    /\ clean_calls >= 1
    /\ clean_calls < 1 + MaxCleanCalls
    /\ clean_arg' = clean_ret
    /\ clean_ret' = clean_name_for_file(clean_ret)
    /\ clean_calls' = clean_calls + 1
    /\ clean_idle

CleanNext == clean_name_call \/ clean_name_recall

CleanSpec == CleanInit /\ [][CleanNext]_vars

RobertDowneyJrSlug ==
    << "r","o","b","e","r","t","-","d","o","w","n","e","y","-","j","r","." >>

\* C12: clean_name_for_file is idempotent: called with a value it returned it
\* returns that value again; what it returns has the length of the name, no
\* space and no upper case letter; and for "Robert Downey Jr." it returns
\* "robert-downey-jr.".
C12_Returned ==
    clean_calls >= 1 =>
        /\ Len(clean_ret) = Len(clean_arg)
        /\ \A k \in DOMAIN clean_ret :
             /\ clean_ret[k] # " "
             /\ clean_ret[k] \notin Range(UpperCase)
             /\ clean_arg[k] \notin Range(UpperCase) \cup {" "}
                    => clean_ret[k] = clean_arg[k]
             /\ clean_arg[k] = " " => clean_ret[k] = "-"
        /\ (clean_calls = 1 /\ clean_arg = RobertDowneyJr)
               => clean_ret = RobertDowneyJrSlug

C12_Slug ==
    /\ [][clean_calls >= 1 /\ clean_calls' = clean_calls + 1
             => clean_ret' = clean_ret]_vars
    /\ []C12_Returned

\* C12 witness: "Robert Downey Jr." was cleaned and the result cleaned again
C12_Witness ==
    /\ clean_calls = 2
    /\ clean_arg = RobertDowneyJrSlug
    /\ clean_ret = RobertDowneyJrSlug

\* C13: what process_actor returns agrees with output_dir.  When it returns
\* True, <clean_name>.png is in the directory at that moment; when it returns
\* False the file was absent at the call, is absent at the return, and the
\* directory is as it was at the call (a save that raises leaving no file).
C13_ReturnAgreesWithStore ==
    pc = "pa_ret" =>
        /\ ret = "True" => output_path(actor_name) \in files
        /\ ret = "False" =>
               /\ ~present_at_call
               /\ output_path(actor_name) \notin files
               /\ files = files_at_call

\* C13 witness: a call returns True after a save that failed and one that
\* completed, in a run where an earlier call for another file returned False
C13_Witness ==
    /\ pc = "pa_ret"
    /\ ret = "True"
    /\ written = 1
    /\ hist[1] = "save_fail"
    /\ output_path(actor_name) \in files
    /\ \E j \in DOMAIN actors :
         /\ result[j] = "fail"
         /\ output_path(actors[j]) \notin files

\* no two entries of the list have the same file name
DistinctSlugs ==
    \A j, k \in DOMAIN actors :
        j # k => output_path(actors[j]) # output_path(actors[k])

\* entries of the list whose image is in output_dir
StoredPositions == {j \in DOMAIN actors : output_path(actors[j]) \in files}

\* the link of entry j is a line of actor_image_links.txt
HasLine(j) == create_cdn_link(actors[j]) \in Range(links)

\* the three parts of C14
C14_LineIffFile == \A j \in DOMAIN actors : HasLine(j) <=> j \in StoredPositions
C14_OneLinePerFile == Len(links) = Cardinality(StoredPositions)
C14_CountIsLines == reported_count(successful_actors) = Len(links)

\* C14: at the end of a run over a list with pairwise distinct file names, an
\* entry has its line in actor_image_links.txt if and only if its image is in
\* output_dir, there is one line per such entry, and the count printed equals
\* the number of lines.
C14_LinksMatchStore ==
    (pc = "done" /\ DistinctSlugs) =>
        /\ C14_LineIffFile
        /\ C14_OneLinePerFile
        /\ C14_CountIsLines

\* C14 witness: the end of a run over two actors with different file names,
\* the first failed, the second downloaded
C14_Witness ==
    /\ pc = "done"
    /\ DistinctSlugs
    /\ Len(actors) = 2
    /\ result = << "fail", "ok" >>
    /\ StoredPositions = {2}
    /\ Len(links) = 1
    /\ reported_count(successful_actors) = 1

\* C14 without the condition on the list.  The link of an entry is still a
\* line exactly when its image is stored ...
C14_AnyList_LineIffFile == pc = "done" => C14_LineIffFile

\* ... but two names sharing a file name give fewer lines than entries with
\* an image (the first fails, the second is downloaded) ...
C14_AnyList_OneLinePerFile == pc = "done" => C14_OneLinePerFile

\* ... and a name listed twice gives more lines than the count printed (the
\* first call fails, the second succeeds: one append, two lines).
C14_AnyList_CountIsLines == pc = "done" => C14_CountIsLines

====
